---- MODULE Spec2Model ----
(***************************************************************************)
(* Model of facilitator/src/ingestion.rs: the Batch locator and            *)
(* BatchIngestor::generate_validation_share.                               *)
(*                                                                         *)
(* A file is a sequence of tokens.  A token is a record with a tag t:      *)
(* "magic" (the Avro container header, with metadata that decoding does    *)
(* not interpret), "hdr", "sig", "pkt" (one encoded record each), "block"  *)
(* (an Avro block of encoded validation packets), "vhdr", "junk" (bytes    *)
(* that decode as nothing).                                                *)
(* A 64-bit integer is a tuple of four 16-bit limbs, most significant      *)
(* first, in two's complement; a 32-bit unsigned integer is two limbs.     *)
(***************************************************************************)
EXTENDS Integers, Sequences, FiniteSets, TLC

\* Longest packet file (in records) the inputs are drawn from.
MaxPackets == 2
\* Number of objects the Avro writer buffers before it writes a block
\* (stands for avro-rs's byte threshold).
BlockObjects == 2
\* Number of times the storage adversary may overwrite an ingestion file.
MaxTamper == 2

Limb == 65536

----------------------------------------------------------------------------
\* Batch locator

AggregationName == "fake-aggregation-1"
Date == "fake-date"
BatchUuid == "batch-uuid"

\* PathBuf::with_extension on a file name without a dot appends "." ext
WithExtension(path, ext) == path \o <<".">> \o ext

\* A String used as a path is a sequence of tokens, each a separator "/" or a
\* name without separator: "" is <<>>, "/abs" is <<"/", "abs">>.

\* PathBuf::join: an absolute component replaces the path; otherwise the
\* component is appended, after a separator unless the path is empty or ends
\* with one
PathJoin(path, component) ==
    IF component # <<>> /\ Head(component) = "/" THEN component
    ELSE IF path = <<>> \/ path[Len(path)] = "/" THEN path \o component
    ELSE path \o <<"/">> \o component

BatchNew(aggregation_name, uuid, date, filename) ==
    LET batch_path ==
            PathJoin(PathJoin(PathJoin(<<>>, aggregation_name), date), <<uuid>>)
    IN  [header_path      |-> WithExtension(batch_path, filename),
         packet_file_path |-> WithExtension(batch_path, filename \o <<".avro">>),
         signature_path   |-> WithExtension(batch_path, filename \o <<".sig">>)]

NewIngestion(aggregation_name, uuid, date) ==
    BatchNew(aggregation_name, uuid, date, <<"batch">>)

NewValidation(aggregation_name, uuid, date, first) ==
    BatchNew(aggregation_name, uuid, date,
             <<"validity_", IF first THEN "0" ELSE "1">>)

----------------------------------------------------------------------------
\* Integers as limbs

I64(l3, l2, l1, l0) == <<l3, l2, l1, l0>>

\* packet.r_pit as u32: the low 32 bits, whatever the value
TryFromU32_Truncating(v) == [ok |-> TRUE, val |-> <<v[3], v[4]>>]

\* i32::try_from in place of u32::try_from
TryFromU32_Signed(v) ==
    IF v[1] = 0 /\ v[2] = 0 /\ v[3] < 32768
    THEN [ok |-> TRUE,  val |-> <<v[3], v[4]>>]
    ELSE [ok |-> FALSE, val |-> <<0, 0>>]

\* u32::try_from(i64): succeeds exactly when the upper 32 bits are zero
TryFromU32(v) ==
    IF v[1] = 0 /\ v[2] = 0
    THEN [ok |-> TRUE,  val |-> <<v[3], v[4]>>]
    ELSE [ok |-> FALSE, val |-> <<0, 0>>]

\* u32 as i32 as i64: sign extension
WidenU32_SignExtended(u) ==
    IF u[1] >= 32768 THEN <<Limb - 1, Limb - 1, u[1], u[2]>> ELSE <<0, 0, u[1], u[2]>>

\* u32 as i64: zero extension
WidenU32(u) == <<0, 0, u[1], u[2]>>

\* Field::from(u32): the field element that embeds the unsigned 32-bit value
FieldFrom(u) == [t |-> "field", value |-> u]

\* u32::from(Field): the unsigned 32-bit value that represents a field element
U32From(f) == f.value

----------------------------------------------------------------------------
\* Records and files

Magic(m) == [t |-> "magic", meta |-> m]
Junk == [t |-> "junk"]

HeaderRec(bins, hw) ==
    [t |-> "hdr", batch_uuid |-> BatchUuid, name |-> AggregationName,
     bins |-> bins, epsilon |-> 11, prime |-> <<65520, 1>>,
     number_of_servers |-> 2, hamming_weight |-> hw]

Payload(intact, g) == [intact |-> intact, g |-> g]

Packet(uuid, r_pit, payload) ==
    [t |-> "pkt", uuid |-> uuid, r_pit |-> r_pit, encrypted_payload |-> payload]

\* ECDSA, idealised: a signature names its signer and the message signed
Sign(key, msg) == [signer |-> key, msg |-> msg]
Verify(key, msg, sig) == sig.signer = key /\ sig.msg = msg

IngestorKey == "ingestor"
OtherKey == "other"
SigningKey(first) == IF first THEN "pha" ELSE "facilitator"

SigRec(hs, ps) ==
    [t |-> "sig", batch_header_signature |-> hs, signature_of_packets |-> ps]

NoSignature == [t |-> "none"]
NoHeader == [t |-> "none"]
NoServer == [t |-> "none"]
NoSig == Sign("none", <<>>)

\* Result<T, Error> of a record read
ROk(v) == [ok |-> TRUE, val |-> v, err |-> "none"]
RErr(e) == [ok |-> FALSE, val |-> Junk, err |-> e]

\* IngestionSignature::read: one record, EofError at a clean end of stream
ReadSignature(bytes) ==
    IF bytes = <<>> THEN RErr("EofError")
    ELSE IF Head(bytes).t = "sig" THEN ROk(Head(bytes))
    ELSE RErr("AvroError")

\* IngestionHeader::read: one record, EofError at a clean end of stream
ReadHeader(bytes) ==
    IF bytes = <<>> THEN RErr("EofError")
    ELSE IF Head(bytes).t = "hdr" THEN ROk(Head(bytes))
    ELSE RErr("AvroError")

\* Reader::with_schema: needs the container header
ReaderWithSchema(bytes) ==
    IF bytes # <<>> /\ Head(bytes).t = "magic"
    THEN ROk([t |-> "reader", rest |-> Tail(bytes)])
    ELSE RErr("AvroError")

\* IngestionDataSharePacket::read on the reader: the next record
ReadPacket(rd) ==
    IF rd.rest = <<>> THEN RErr("EofError")
    ELSE IF Head(rd.rest).t = "pkt" THEN ROk(Head(rd.rest))
    ELSE RErr("AvroError")

\* Server::new(bins, is_first, key)
ServerNew(bins, first) == [t |-> "server", bins |-> bins, is_first |-> first]

\* Server::generate_verification_message: a deterministic function of the
\* server, the field element and the payload; None when the payload does not
\* decrypt
GenerateVerificationMessage(srv, r, payload) ==
    IF payload.intact
    THEN [some |-> TRUE, f_r |-> r, g_r |-> FieldFrom(payload.g),
          h_r |-> FieldFrom(IF srv.is_first THEN <<0, srv.bins>>
                            ELSE <<65520, 0>>)]
    ELSE [some |-> FALSE, f_r |-> FieldFrom(<<0, 0>>),
          g_r |-> FieldFrom(<<0, 0>>), h_r |-> FieldFrom(<<0, 0>>)]

ValidationPacket(uuid, m) ==
    [t |-> "vpkt", uuid |-> uuid, f_r |-> WidenU32(U32From(m.f_r)),
     g_r |-> WidenU32(U32From(m.g_r)), h_r |-> WidenU32(U32From(m.h_r))]

\* number_of_servers and hamming_weight, both i32, taken from each other
ValidationHeader_Swapped(h) ==
    [t |-> "vhdr", batch_uuid |-> h.batch_uuid, name |-> h.name, bins |-> h.bins,
     epsilon |-> h.epsilon, prime |-> h.prime,
     number_of_servers |-> h.hamming_weight,
     hamming_weight |-> h.number_of_servers]

ValidationHeader(h) ==
    [t |-> "vhdr", batch_uuid |-> h.batch_uuid, name |-> h.name, bins |-> h.bins,
     epsilon |-> h.epsilon, prime |-> h.prime,
     number_of_servers |-> h.number_of_servers,
     hamming_weight |-> h.hamming_weight]

Block(objects) == [t |-> "block", objects |-> objects]

----------------------------------------------------------------------------
\* Inputs

HeaderFiles ==
    { <<>>, <<Junk>>, <<HeaderRec(2, 1)>>, <<HeaderRec(3, 4)>>, <<HeaderRec(0, 1)>>,
      <<HeaderRec(-1, 1)>> }

PacketDomain ==
    { Packet("p1", I64(0, 0, 0, 0), Payload(TRUE, <<0, 7>>)),
      Packet("p2", I64(0, 0, 65535, 65535), Payload(TRUE, <<65535, 65535>>)),
      Packet("p3", I64(0, 1, 0, 0), Payload(TRUE, <<0, 1>>)),
      Packet("p4", I64(65535, 65535, 65535, 65535), Payload(TRUE, <<0, 2>>)),
      Packet("p5", I64(0, 0, 0, 5), Payload(FALSE, <<0, 0>>)) }

RecordSeqs(n) == UNION { [1..k -> PacketDomain \cup {Junk}] : k \in 0..n }

PacketFiles == { <<>>, <<Junk>> } \cup { <<Magic(0)>> \o r : r \in RecordSeqs(MaxPackets) }

\* A file that differs from f; for a container file the difference lies in
\* the container metadata, outside every record
AltFile(f) ==
    IF f # <<>> /\ Head(f).t = "magic"
    THEN <<Magic(1 - Head(f).meta)>> \o Tail(f)
    ELSE f \o <<Junk>>

\* The signatures a signature record may carry for a stored file f: the
\* ingestor's over f, the ingestor's over a different file, another key's over f
SignaturesFor(f) ==
    { Sign(IngestorKey, f), Sign(IngestorKey, AltFile(f)), Sign(OtherKey, f) }

SignatureFiles(h, p) ==
    { <<>>, <<Junk>> }
    \cup { <<SigRec(hs, ps)>> : hs \in SignaturesFor(h), ps \in SignaturesFor(p) }

TestBatchId ==
    [aggregation_name |-> <<AggregationName>>, uuid |-> BatchUuid,
     date |-> <<Date>>]

\* The (aggregation_name, uuid, date) arguments BatchIngestor::new is given:
\* those of the test, an empty aggregation name, an absolute date, an empty
\* date
BatchIds ==
    { TestBatchId,
      [aggregation_name |-> <<>>, uuid |-> BatchUuid, date |-> <<Date>>],
      [aggregation_name |-> <<AggregationName>>, uuid |-> BatchUuid,
       date |-> <<"/", "abs">>],
      [aggregation_name |-> <<AggregationName>>, uuid |-> BatchUuid,
       date |-> <<>>] }

----------------------------------------------------------------------------
\* State

VARIABLES
    is_first,                 \* BatchIngestor.is_first
    batch_id,                 \* BatchIngestor::new's aggregation_name, uuid, date
    namespace_shared,         \* both transports are rooted at one directory
    other_pc,                 \* progress of the instance of the other role
    ingestionStore,           \* what the ingestion transport serves, by key
    validationStore,          \* what the validation transport holds, by key
    pc,                       \* position in generate_validation_share
    result,                   \* the call's return value
    signature_reader,         \* what IngestionSignature::read has read of it
    signature,                \* let signature
    ingestion_header_buf,     \* let ingestion_header_buf
    ingestion_header,         \* let ingestion_header
    server,                   \* let server
    entire_packet_file,       \* let entire_packet_file
    ingestion_packet_reader,  \* let ingestion_packet_reader
    validation_packet_writer, \* let validation_packet_writer (Avro writer state)
    packet_sidecar,           \* validation_packet_sidecar_writer.sidecar
    header_sidecar,           \* validation_header_writer.sidecar
    packet_file_signature,    \* let packet_file_signature
    header_signature,         \* let header_signature
    observed,                 \* calls made so far on the collaborators
    tampered                  \* overwrites done by the storage adversary

vars == <<is_first, batch_id, namespace_shared, other_pc, ingestionStore,
          validationStore, pc, result, signature_reader, signature,
          ingestion_header_buf, ingestion_header, server, entire_packet_file,
          ingestion_packet_reader, validation_packet_writer, packet_sidecar,
          header_sidecar, packet_file_signature, header_signature, observed,
          tampered>>

ingestion_batch ==
    NewIngestion(batch_id.aggregation_name, batch_id.uuid, batch_id.date)

\* Batch::new_validation called with true in place of is_first
validation_batch_AsFirst ==
    NewValidation(batch_id.aggregation_name, batch_id.uuid, batch_id.date, TRUE)

validation_batch ==
    NewValidation(batch_id.aggregation_name, batch_id.uuid, batch_id.date, is_first)

IngestionKeys ==
    { ingestion_batch.header_path, ingestion_batch.packet_file_path,
      ingestion_batch.signature_path }

NoResult == [kind |-> "none", at |-> "none", injected |-> FALSE]
NoReader == [t |-> "none", rest |-> <<>>]
NewWriter == [has_header |-> FALSE, buffer |-> <<>>]

NothingObserved ==
    [gets |-> <<>>, puts |-> <<>>, engine_calls |-> <<>>, engine_args |-> <<>>,
     decoded |-> <<>>,
     verified_header |-> <<>>, parsed_header |-> <<>>,
     verified_packets |-> <<>>, decoded_from |-> <<>>]

Store(h, p, s) ==
    [k \in IngestionKeys |->
        IF k = ingestion_batch.header_path THEN h
        ELSE IF k = ingestion_batch.packet_file_path THEN p
        ELSE s]

\* The state BatchIngestor::new leaves, before generate_validation_share runs
Constructed(first, id, shared, store) ==
    /\ is_first = first
    /\ batch_id = id
    /\ namespace_shared = shared
    /\ other_pc = 0
    /\ ingestionStore = store
    /\ validationStore = << >>
    /\ pc = "get_signature"
    /\ result = NoResult
    /\ signature_reader = <<>>
    /\ signature = NoSignature
    /\ ingestion_header_buf = <<>>
    /\ ingestion_header = NoHeader
    /\ server = NoServer
    /\ entire_packet_file = <<>>
    /\ ingestion_packet_reader = NoReader
    /\ validation_packet_writer = NewWriter
    /\ packet_sidecar = <<>>
    /\ header_sidecar = <<>>
    /\ packet_file_signature = NoSig
    /\ header_signature = NoSig
    /\ observed = NothingObserved
    /\ tampered = 0

\* Every stored batch for the arguments of the test; for the other arguments
\* the batches with a header that passes the checks, without or with one
\* packet
Init ==
    \E first \in BOOLEAN, id \in BatchIds, h \in HeaderFiles, p \in PacketFiles :
        \E s \in SignatureFiles(h, p) :
            /\ \/ id = TestBatchId
               \/ /\ h = <<HeaderRec(2, 1)>>
                  /\ Len(p) \in 1..2 /\ Head(p).t = "magic"
                  /\ s = <<SigRec(Sign(IngestorKey, h), Sign(IngestorKey, p))>>
            /\ Constructed(first, id, FALSE, Store(h, p, s))

----------------------------------------------------------------------------
\* Collaborators

\* return Err(kind) (or Ok(())) from the current position
Return(kind) ==
    /\ result' = [kind |-> kind, at |-> pc, injected |-> FALSE]
    /\ pc' = "done"

\* return Err(kind) because the collaborator called at the current position
\* (transport, stream, encoder, signer) reported a failure
Fault(kind) ==
    /\ result' = [kind |-> kind, at |-> pc, injected |-> TRUE]
    /\ pc' = "done"

Goto(next) ==
    /\ pc' = next
    /\ result' = result

\* Transport::put(key): a fresh, empty stream under key
Put(store, key) ==
    [k \in (DOMAIN store) \cup {key} |-> IF k = key THEN <<>> ELSE store[k]]

\* Write::write on the stream under key
StreamWrite(store, key, bytes) == [store EXCEPT ![key] = @ \o bytes]

\* Read::read on the stream under a key returns the bytes at the stream's
\* position in the file as it is stored at the time of the call, and not
\* always all that remain.  The bytes of a token come in two parts and a call
\* returns one part; a part that does not meet its other part in the buffer
\* stays there as a fragment, which is no record and is in no signed message.
Frag(tok, part) == [t |-> "frag", of |-> tok, part |-> part]

\* The length of a buffer, in parts
PartsIn(buf) ==
    2 * Len(buf) - Cardinality({ i \in 1..Len(buf) : buf[i].t = "frag" })

\* The part of file at position offset (from 0)
PartAt(file, offset) == Frag(file[(offset \div 2) + 1], (offset % 2) + 1)

\* Vec::extend_from_slice by one part
ExtendWith(buf, part) ==
    IF /\ buf # <<>>
       /\ buf[Len(buf)].t = "frag"
       /\ buf[Len(buf)].part = 1
       /\ part.part = 2
       /\ buf[Len(buf)].of = part.of
    THEN SubSeq(buf, 1, Len(buf) - 1) \o <<part.of>>
    ELSE Append(buf, part)

\* What the ingestion transport serves once the validation transport holds
\* val: two transports rooted at one directory serve the same file under the
\* same key
SharedView(ing, val) ==
    IF namespace_shared
    THEN [k \in DOMAIN ing |-> IF k \in DOMAIN val THEN val[k] ELSE ing[k]]
    ELSE ing

\* What avro_rs::Writer::append hands to the underlying writer: the container
\* header before the first object, and a block once the buffer is full
AppendOutput(w, obj) ==
    (IF w.has_header THEN <<>> ELSE <<Magic(0)>>)
    \o (IF Len(w.buffer) + 1 >= BlockObjects
        THEN <<Block(Append(w.buffer, obj))>> ELSE <<>>)

AppendState(w, obj) ==
    [has_header |-> TRUE,
     buffer |-> IF Len(w.buffer) + 1 >= BlockObjects THEN <<>>
                ELSE Append(w.buffer, obj)]

\* No flush of the writer's last, partial block
FlushOutput_Nothing(w) == <<>>

\* What avro_rs::Writer::flush hands to the underlying writer
FlushOutput(w) == IF w.buffer = <<>> THEN <<>> ELSE <<Block(w.buffer)>>

----------------------------------------------------------------------------
\* generate_validation_share, one action per statement

locals == <<signature_reader, signature, ingestion_header_buf, ingestion_header, server,
            entire_packet_file, ingestion_packet_reader,
            validation_packet_writer, packet_sidecar, header_sidecar,
            packet_file_signature, header_signature>>

GetSignature ==
    /\ pc = "get_signature"
    /\ observed' = [observed EXCEPT !.gets = Append(@, ingestion_batch.signature_path)]
    /\ \E io_ok \in BOOLEAN :
          IF io_ok THEN Goto("read_signature") ELSE Fault("IoError")
    /\ UNCHANGED <<is_first, batch_id, namespace_shared, other_pc,
                   ingestionStore, validationStore, locals, tampered>>

\* The record IngestionSignature::read decodes from the two fields it read
SignatureOf(buf) ==
    IF Len(buf) = 1 THEN buf[1]
    ELSE SigRec(buf[1].of.batch_header_signature, buf[2].of.signature_of_packets)

\* One read() call of IngestionSignature::read on the stream: the two fields
\* of the record, then the read that finds the end of the one-record file
ReadSignatureRecord ==
    /\ pc = "read_signature"
    /\ LET file == ingestionStore[ingestion_batch.signature_path]
           offset == PartsIn(signature_reader)
       IN  \E io_ok \in BOOLEAN :
              IF ~io_ok
              THEN /\ UNCHANGED <<signature_reader, signature>>
                   /\ Fault("AvroError")
              ELSE IF offset >= 2
              THEN /\ signature' = SignatureOf(signature_reader)
                   /\ signature_reader' = signature_reader
                   /\ Goto("get_header")
              ELSE IF offset >= 2 * Len(file)
              THEN /\ UNCHANGED <<signature_reader, signature>>
                   /\ Return(IF offset = 0 THEN "EofError" ELSE "AvroError")
              ELSE /\ signature_reader' =
                         ExtendWith(signature_reader, PartAt(file, offset))
                   /\ signature' = signature
                   /\ IF PartAt(file, offset).of.t = "sig"
                      THEN Goto("read_signature")
                      ELSE Return("AvroError")
    /\ UNCHANGED <<is_first, batch_id, namespace_shared, other_pc,
                   ingestionStore, validationStore, ingestion_header_buf,
                   ingestion_header, server, entire_packet_file,
                   ingestion_packet_reader, validation_packet_writer,
                   packet_sidecar, header_sidecar, packet_file_signature,
                   header_signature, observed, tampered>>

GetHeader ==
    /\ pc = "get_header"
    /\ observed' = [observed EXCEPT !.gets = Append(@, ingestion_batch.header_path)]
    /\ \E io_ok \in BOOLEAN :
          IF io_ok THEN Goto("read_header") ELSE Fault("IoError")
    /\ UNCHANGED <<is_first, batch_id, namespace_shared, other_pc,
                   ingestionStore, validationStore, locals, tampered>>

\* One read() call of read_to_end; the call that finds the end of the file
\* ends the loop
ReadHeaderToEnd ==
    /\ pc = "read_header"
    /\ LET file == ingestionStore[ingestion_batch.header_path]
           offset == PartsIn(ingestion_header_buf)
       IN  \E io_ok \in BOOLEAN :
              IF ~io_ok
              THEN /\ ingestion_header_buf' = ingestion_header_buf
                   /\ Fault("IoError")
              ELSE IF offset < 2 * Len(file)
              THEN /\ ingestion_header_buf' =
                         ExtendWith(ingestion_header_buf, PartAt(file, offset))
                   /\ Goto("read_header")
              ELSE /\ ingestion_header_buf' = ingestion_header_buf
                   /\ Goto("verify_header")
    /\ UNCHANGED <<is_first, batch_id, namespace_shared, other_pc,
                   ingestionStore, validationStore, signature_reader, signature,
                   ingestion_header, server, entire_packet_file,
                   ingestion_packet_reader, validation_packet_writer,
                   packet_sidecar, header_sidecar, packet_file_signature,
                   header_signature, observed, tampered>>

VerifyHeaderSignature_Unchecked ==
    /\ pc = "verify_header"
    /\ observed' = [observed EXCEPT !.verified_header = <<ingestion_header_buf>>]
    /\ Goto("parse_header")
    /\ UNCHANGED <<is_first, batch_id, namespace_shared, other_pc,
                   ingestionStore, validationStore, locals, tampered>>

VerifyHeaderSignature ==
    /\ pc = "verify_header"
    /\ IF Verify(IngestorKey, ingestion_header_buf, signature.batch_header_signature)
       THEN /\ observed' = [observed EXCEPT !.verified_header = <<ingestion_header_buf>>]
            /\ Goto("parse_header")
       ELSE /\ observed' = observed
            /\ Return("CryptographyError")
    /\ UNCHANGED <<is_first, batch_id, namespace_shared, other_pc,
                   ingestionStore, validationStore, locals, tampered>>

HeaderSource_Refetched == ingestionStore[ingestion_batch.header_path]

\* The bytes IngestionHeader::read is given
HeaderSource == ingestion_header_buf

ParseHeader ==
    /\ pc = "parse_header"
    /\ observed' = [observed EXCEPT !.parsed_header = <<HeaderSource>>]
    /\ LET r == ReadHeader(HeaderSource)
       IN  IF r.ok
           THEN /\ ingestion_header' = r.val
                /\ Goto("check_bins")
           ELSE /\ ingestion_header' = ingestion_header
                /\ Return(r.err)
    /\ UNCHANGED <<is_first, batch_id, namespace_shared, other_pc,
                   ingestionStore, validationStore, signature_reader, signature,
                   ingestion_header_buf, server, entire_packet_file,
                   ingestion_packet_reader, validation_packet_writer,
                   packet_sidecar, header_sidecar, packet_file_signature,
                   header_signature, tampered>>

BinsRejected_NegativeOnly(h) == h.bins < 0

\* if ingestion_header.bins <= 0
BinsRejected(h) == h.bins <= 0

CheckBinsAndNewServer ==
    /\ pc = "check_bins"
    /\ IF BinsRejected(ingestion_header)
       THEN /\ server' = server
            /\ Return("MalformedHeaderError")
       ELSE /\ server' = ServerNew(ingestion_header.bins, is_first)
            /\ Goto("get_packet_file")
    /\ UNCHANGED <<is_first, batch_id, namespace_shared, other_pc,
                   ingestionStore, validationStore, signature_reader, signature,
                   ingestion_header_buf, ingestion_header, entire_packet_file,
                   ingestion_packet_reader, validation_packet_writer,
                   packet_sidecar, header_sidecar, packet_file_signature,
                   header_signature, observed, tampered>>

GetPacketFile ==
    /\ pc = "get_packet_file"
    /\ observed' = [observed EXCEPT !.gets = Append(@, ingestion_batch.packet_file_path)]
    /\ \E io_ok \in BOOLEAN :
          IF io_ok THEN Goto("copy_packet_file") ELSE Fault("IoError")
    /\ UNCHANGED <<is_first, batch_id, namespace_shared, other_pc,
                   ingestionStore, validationStore, locals, tampered>>

\* One read() call of std::io::copy, with the write of what it returned to
\* entire_packet_file; the call that finds the end of the file ends the copy
CopyPacketFile ==
    /\ pc = "copy_packet_file"
    /\ LET file == ingestionStore[ingestion_batch.packet_file_path]
           offset == PartsIn(entire_packet_file)
       IN  \E io_ok \in BOOLEAN :
              IF ~io_ok
              THEN /\ entire_packet_file' = entire_packet_file
                   /\ Fault("IoError")
              ELSE IF offset < 2 * Len(file)
              THEN /\ entire_packet_file' =
                         ExtendWith(entire_packet_file, PartAt(file, offset))
                   /\ Goto("copy_packet_file")
              ELSE /\ entire_packet_file' = entire_packet_file
                   /\ Goto("verify_packet_file")
    /\ UNCHANGED <<is_first, batch_id, namespace_shared, other_pc,
                   ingestionStore, validationStore, signature_reader, signature,
                   ingestion_header_buf, ingestion_header, server,
                   ingestion_packet_reader, validation_packet_writer,
                   packet_sidecar, header_sidecar, packet_file_signature,
                   header_signature, observed, tampered>>

VerifyPacketFileSignature_Unchecked ==
    /\ pc = "verify_packet_file"
    /\ observed' = [observed EXCEPT !.verified_packets = <<entire_packet_file>>]
    /\ Goto("new_reader")
    /\ UNCHANGED <<is_first, batch_id, namespace_shared, other_pc,
                   ingestionStore, validationStore, locals, tampered>>

\* A verification that covers the records and not the raw byte string
VerifyPacketFileSignature_RecordsOnly ==
    /\ pc = "verify_packet_file"
    /\ IF /\ signature.signature_of_packets.signer = IngestorKey
          /\ entire_packet_file # <<>>
          /\ signature.signature_of_packets.msg # <<>>
          /\ Tail(signature.signature_of_packets.msg) = Tail(entire_packet_file)
       THEN /\ observed' = [observed EXCEPT !.verified_packets = <<entire_packet_file>>]
            /\ Goto("new_reader")
       ELSE /\ observed' = observed
            /\ Return("CryptographyError")
    /\ UNCHANGED <<is_first, batch_id, namespace_shared, other_pc,
                   ingestionStore, validationStore, locals, tampered>>

VerifyPacketFileSignature ==
    /\ pc = "verify_packet_file"
    /\ IF Verify(IngestorKey, entire_packet_file, signature.signature_of_packets)
       THEN /\ observed' = [observed EXCEPT !.verified_packets = <<entire_packet_file>>]
            /\ Goto("new_reader")
       ELSE /\ observed' = observed
            /\ Return("CryptographyError")
    /\ UNCHANGED <<is_first, batch_id, namespace_shared, other_pc,
                   ingestionStore, validationStore, locals, tampered>>

\* The bytes the Avro reader is created over
ReaderSource == entire_packet_file

NewPacketReader ==
    /\ pc = "new_reader"
    /\ observed' = [observed EXCEPT !.decoded_from = <<ReaderSource>>]
    /\ LET r == ReaderWithSchema(ReaderSource)
       IN  IF r.ok
           THEN /\ ingestion_packet_reader' = r.val
                /\ Goto("put_packet_file")
           ELSE /\ ingestion_packet_reader' = ingestion_packet_reader
                /\ Return(r.err)
    /\ UNCHANGED <<is_first, batch_id, namespace_shared, other_pc,
                   ingestionStore, validationStore, signature_reader, signature,
                   ingestion_header_buf, ingestion_header, server,
                   entire_packet_file, validation_packet_writer,
                   packet_sidecar, header_sidecar, packet_file_signature,
                   header_signature, tampered>>

PutPacketFile ==
    /\ pc = "put_packet_file"
    /\ observed' = [observed EXCEPT !.puts = Append(@, validation_batch.packet_file_path)]
    /\ \E io_ok \in BOOLEAN :
          IF io_ok
          THEN /\ validationStore' = Put(validationStore, validation_batch.packet_file_path)
               /\ Goto("loop")
          ELSE /\ validationStore' = validationStore
               /\ Fault("IoError")
    /\ UNCHANGED <<is_first, batch_id, namespace_shared, other_pc,
                   locals, tampered>>
    /\ ingestionStore' = SharedView(ingestionStore, validationStore')

\* Err(Error::EofError) => continue
EndOfPackets_Spins ==
    /\ pc = "loop"
    /\ ReadPacket(ingestion_packet_reader).err = "EofError"
    /\ UNCHANGED vars

\* Err(_) => break
EndOfPackets_AnyError ==
    /\ pc = "loop"
    /\ ~ReadPacket(ingestion_packet_reader).ok
    /\ Goto("flush")
    /\ UNCHANGED <<is_first, batch_id, namespace_shared, other_pc,
                   ingestionStore, validationStore, locals, observed,
                   tampered>>

\* Err(Error::EofError) => break
EndOfPackets ==
    /\ pc = "loop"
    /\ ReadPacket(ingestion_packet_reader).err = "EofError"
    /\ Goto("flush")
    /\ UNCHANGED <<is_first, batch_id, namespace_shared, other_pc,
                   ingestionStore, validationStore, locals, observed,
                   tampered>>

\* r_pit taken as u32 without the range check
IllegalRPit_Never(packet) == FALSE

\* The first arm of the loop's match on r_pit that returns
IllegalRPit(packet) == ~TryFromU32(packet.r_pit).ok

\* None => continue: a packet the engine rejects is skipped
ProcessPacket_SkipNone ==
    /\ pc = "loop"
    /\ ReadPacket(ingestion_packet_reader).err # "EofError"
    /\ ingestion_packet_reader' =
          [ingestion_packet_reader EXCEPT !.rest = Tail(@)]
    /\ LET rd == ReadPacket(ingestion_packet_reader)
           packet == rd.val
           r_pit == TryFromU32(packet.r_pit).val
           msg == GenerateVerificationMessage(server, FieldFrom(r_pit),
                                              packet.encrypted_payload)
           out == ValidationPacket(packet.uuid, msg)
           bytes == AppendOutput(validation_packet_writer, out)
           key == validation_batch.packet_file_path
       IN  IF ~rd.ok
           THEN /\ Return(rd.err)
                /\ UNCHANGED <<observed, validation_packet_writer,
                               validationStore, packet_sidecar>>
           ELSE IF IllegalRPit(packet)
           THEN /\ Return("MalformedDataPacketError")
                /\ observed' = [observed EXCEPT !.decoded = Append(@, packet)]
                /\ UNCHANGED <<validation_packet_writer, validationStore,
                               packet_sidecar>>
           ELSE IF ~msg.some
           THEN /\ Goto("loop")
                /\ observed' = [observed EXCEPT
                                  !.decoded = Append(@, packet),
                                  !.engine_calls = Append(@, packet),
                                  !.engine_args = Append(@, FieldFrom(r_pit))]
                /\ UNCHANGED <<validation_packet_writer, validationStore,
                               packet_sidecar>>
           ELSE /\ observed' = [observed EXCEPT
                                  !.decoded = Append(@, packet),
                                  !.engine_calls = Append(@, packet),
                                  !.engine_args = Append(@, FieldFrom(r_pit))]
                /\ \E io_ok \in BOOLEAN :
                      IF io_ok
                      THEN /\ validation_packet_writer' =
                                 AppendState(validation_packet_writer, out)
                           /\ validationStore' = StreamWrite(validationStore, key, bytes)
                           /\ packet_sidecar' = packet_sidecar \o bytes
                           /\ Goto("loop")
                      ELSE /\ UNCHANGED <<validation_packet_writer,
                                          validationStore, packet_sidecar>>
                           /\ Fault("AvroError")
    /\ UNCHANGED <<is_first, batch_id, namespace_shared, other_pc,
                   signature_reader, signature, ingestion_header_buf,
                   ingestion_header, server, entire_packet_file, header_sidecar,
                   packet_file_signature, header_signature, tampered>>
    /\ ingestionStore' = SharedView(ingestionStore, validationStore')

\* One pass through the loop body for a record the reader yields
ProcessPacket ==
    /\ pc = "loop"
    /\ ReadPacket(ingestion_packet_reader).err # "EofError"
    /\ ingestion_packet_reader' =
          [ingestion_packet_reader EXCEPT !.rest = Tail(@)]
    /\ LET rd == ReadPacket(ingestion_packet_reader)
           packet == rd.val
           r_pit == TryFromU32(packet.r_pit).val
           msg == GenerateVerificationMessage(server, FieldFrom(r_pit),
                                              packet.encrypted_payload)
           out == ValidationPacket(packet.uuid, msg)
           bytes == AppendOutput(validation_packet_writer, out)
           key == validation_batch.packet_file_path
       IN  IF ~rd.ok
           THEN /\ Return(rd.err)
                /\ UNCHANGED <<observed, validation_packet_writer,
                               validationStore, packet_sidecar>>
           ELSE IF IllegalRPit(packet)
           THEN /\ Return("MalformedDataPacketError")
                /\ observed' = [observed EXCEPT !.decoded = Append(@, packet)]
                /\ UNCHANGED <<validation_packet_writer, validationStore,
                               packet_sidecar>>
           ELSE IF ~msg.some
           THEN /\ Return("LibPrioError")
                /\ observed' = [observed EXCEPT
                                  !.decoded = Append(@, packet),
                                  !.engine_calls = Append(@, packet),
                                  !.engine_args = Append(@, FieldFrom(r_pit))]
                /\ UNCHANGED <<validation_packet_writer, validationStore,
                               packet_sidecar>>
           ELSE /\ observed' = [observed EXCEPT
                                  !.decoded = Append(@, packet),
                                  !.engine_calls = Append(@, packet),
                                  !.engine_args = Append(@, FieldFrom(r_pit))]
                /\ \E io_ok \in BOOLEAN :
                      IF io_ok
                      THEN /\ validation_packet_writer' =
                                 AppendState(validation_packet_writer, out)
                           /\ validationStore' = StreamWrite(validationStore, key, bytes)
                           /\ packet_sidecar' = packet_sidecar \o bytes
                           /\ Goto("loop")
                      ELSE /\ UNCHANGED <<validation_packet_writer,
                                          validationStore, packet_sidecar>>
                           /\ Fault("AvroError")
    /\ UNCHANGED <<is_first, batch_id, namespace_shared, other_pc,
                   signature_reader, signature, ingestion_header_buf,
                   ingestion_header, server, entire_packet_file, header_sidecar,
                   packet_file_signature, header_signature, tampered>>
    /\ ingestionStore' = SharedView(ingestionStore, validationStore')

\* The packet file signed without the writer's flush
FlushPacketWriter_Skipped ==
    /\ pc = "flush"
    /\ Goto("sign_packet_file")
    /\ UNCHANGED <<is_first, batch_id, namespace_shared, other_pc,
                   ingestionStore, validationStore, locals, observed, tampered>>

FlushPacketWriter ==
    /\ pc = "flush"
    /\ LET bytes == FlushOutput(validation_packet_writer)
           key == validation_batch.packet_file_path
       IN  \E io_ok \in BOOLEAN :
              IF io_ok
              THEN /\ validation_packet_writer' =
                         [validation_packet_writer EXCEPT !.buffer = <<>>]
                   /\ validationStore' = StreamWrite(validationStore, key, bytes)
                   /\ packet_sidecar' = packet_sidecar \o bytes
                   /\ Goto("sign_packet_file")
              ELSE /\ UNCHANGED <<validation_packet_writer, validationStore,
                                  packet_sidecar>>
                   /\ Fault("AvroError")
    /\ UNCHANGED <<is_first, batch_id, namespace_shared, other_pc,
                   signature_reader, signature, ingestion_header_buf,
                   ingestion_header, server, entire_packet_file,
                   ingestion_packet_reader, header_sidecar,
                   packet_file_signature, header_signature, observed, tampered>>
    /\ ingestionStore' = SharedView(ingestionStore, validationStore')

SignPacketFile ==
    /\ pc = "sign_packet_file"
    /\ \E sign_ok \in BOOLEAN :
          IF sign_ok
          THEN /\ packet_file_signature' = Sign(SigningKey(is_first), packet_sidecar)
               /\ Goto("put_header")
          ELSE /\ packet_file_signature' = packet_file_signature
               /\ Fault("CryptographyError")
    /\ UNCHANGED <<is_first, batch_id, namespace_shared, other_pc,
                   ingestionStore, validationStore, signature_reader, signature,
                   ingestion_header_buf, ingestion_header, server,
                   entire_packet_file, ingestion_packet_reader,
                   validation_packet_writer, packet_sidecar, header_sidecar,
                   header_signature, observed, tampered>>

\* The output header put under the key of the ingestion header
PutHeaderFile_IngestionKey ==
    /\ pc = "put_header"
    /\ observed' = [observed EXCEPT !.puts = Append(@, ingestion_batch.header_path)]
    /\ \E io_ok \in BOOLEAN :
          IF io_ok
          THEN /\ validationStore' = Put(validationStore, ingestion_batch.header_path)
               /\ Goto("write_header")
          ELSE /\ validationStore' = validationStore
               /\ Fault("IoError")
    /\ UNCHANGED <<is_first, batch_id, namespace_shared, other_pc,
                   locals, tampered>>
    /\ ingestionStore' = SharedView(ingestionStore, validationStore')

PutHeaderFile ==
    /\ pc = "put_header"
    /\ observed' = [observed EXCEPT !.puts = Append(@, validation_batch.header_path)]
    /\ \E io_ok \in BOOLEAN :
          IF io_ok
          THEN /\ validationStore' = Put(validationStore, validation_batch.header_path)
               /\ Goto("write_header")
          ELSE /\ validationStore' = validationStore
               /\ Fault("IoError")
    /\ UNCHANGED <<is_first, batch_id, namespace_shared, other_pc,
                   locals, tampered>>
    /\ ingestionStore' = SharedView(ingestionStore, validationStore')

WriteHeader ==
    /\ pc = "write_header"
    /\ LET bytes == <<ValidationHeader(ingestion_header)>>
           key == validation_batch.header_path
       IN  \E io_ok \in BOOLEAN :
              IF io_ok
              THEN /\ validationStore' = StreamWrite(validationStore, key, bytes)
                   /\ header_sidecar' = header_sidecar \o bytes
                   /\ Goto("sign_header")
              ELSE /\ UNCHANGED <<validationStore, header_sidecar>>
                   /\ Fault("AvroError")
    /\ UNCHANGED <<is_first, batch_id, namespace_shared, other_pc,
                   signature_reader, signature, ingestion_header_buf,
                   ingestion_header, server, entire_packet_file,
                   ingestion_packet_reader, validation_packet_writer,
                   packet_sidecar, packet_file_signature, header_signature,
                   observed, tampered>>
    /\ ingestionStore' = SharedView(ingestionStore, validationStore')

SignHeader ==
    /\ pc = "sign_header"
    /\ \E sign_ok \in BOOLEAN :
          IF sign_ok
          THEN /\ header_signature' = Sign(SigningKey(is_first), header_sidecar)
               /\ Goto("put_signature")
          ELSE /\ header_signature' = header_signature
               /\ Fault("CryptographyError")
    /\ UNCHANGED <<is_first, batch_id, namespace_shared, other_pc,
                   ingestionStore, validationStore, signature_reader, signature,
                   ingestion_header_buf, ingestion_header, server,
                   entire_packet_file, ingestion_packet_reader,
                   validation_packet_writer, packet_sidecar, header_sidecar,
                   packet_file_signature, observed, tampered>>

PutSignatureFile ==
    /\ pc = "put_signature"
    /\ observed' = [observed EXCEPT !.puts = Append(@, validation_batch.signature_path)]
    /\ \E io_ok \in BOOLEAN :
          IF io_ok
          THEN /\ validationStore' = Put(validationStore, validation_batch.signature_path)
               /\ Goto("write_signature")
          ELSE /\ validationStore' = validationStore
               /\ Fault("IoError")
    /\ UNCHANGED <<is_first, batch_id, namespace_shared, other_pc,
                   locals, tampered>>
    /\ ingestionStore' = SharedView(ingestionStore, validationStore')

\* The two signatures stored in each other's field
WriteSignature_FieldsSwapped ==
    /\ pc = "write_signature"
    /\ LET bytes == <<SigRec(packet_file_signature, header_signature)>>
           key == validation_batch.signature_path
       IN  \E io_ok \in BOOLEAN :
              IF io_ok
              THEN /\ validationStore' = StreamWrite(validationStore, key, bytes)
                   /\ Return("Ok")
              ELSE /\ validationStore' = validationStore
                   /\ Fault("AvroError")
    /\ UNCHANGED <<is_first, batch_id, namespace_shared, other_pc,
                   locals, observed, tampered>>
    /\ ingestionStore' = SharedView(ingestionStore, validationStore')

WriteSignature ==
    /\ pc = "write_signature"
    /\ LET bytes == <<SigRec(header_signature, packet_file_signature)>>
           key == validation_batch.signature_path
       IN  \E io_ok \in BOOLEAN :
              IF io_ok
              THEN /\ validationStore' = StreamWrite(validationStore, key, bytes)
                   /\ Return("Ok")
              ELSE /\ validationStore' = validationStore
                   /\ Fault("AvroError")
    /\ UNCHANGED <<is_first, batch_id, namespace_shared, other_pc,
                   locals, observed, tampered>>
    /\ ingestionStore' = SharedView(ingestionStore, validationStore')

Next ==
    \/ GetSignature
    \/ ReadSignatureRecord
    \/ GetHeader
    \/ ReadHeaderToEnd
    \/ VerifyHeaderSignature
    \/ ParseHeader
    \/ CheckBinsAndNewServer
    \/ GetPacketFile
    \/ CopyPacketFile
    \/ VerifyPacketFileSignature
    \/ NewPacketReader
    \/ PutPacketFile
    \/ EndOfPackets
    \/ ProcessPacket
    \/ FlushPacketWriter
    \/ SignPacketFile
    \/ PutHeaderFile
    \/ WriteHeader
    \/ SignHeader
    \/ PutSignatureFile
    \/ WriteSignature

Spec == Init /\ [][Next]_vars

----------------------------------------------------------------------------
\* A second process: an adversary who can overwrite the ingestion storage at
\* any moment of the call.  It cannot sign as the ingestor, but it can replay
\* files and signature records the ingestor signed for another batch.

SignedHeader == <<HeaderRec(2, 1)>>
SignedPackets ==
    <<Magic(0)>> \o [i \in 1..MaxPackets |->
        IF i % 2 = 1
        THEN Packet("p1", I64(0, 0, 0, 0), Payload(TRUE, <<0, 7>>))
        ELSE Packet("p2", I64(0, 0, 65535, 65535), Payload(TRUE, <<65535, 65535>>))]

ReplayedHeader == <<HeaderRec(0, 1)>>
ReplayedPackets ==
    <<Magic(0), Packet("p3", I64(0, 1, 0, 0), Payload(TRUE, <<0, 1>>))>>

TamperFiles(key) ==
    IF key = ingestion_batch.header_path
    THEN { SignedHeader, ReplayedHeader, <<Junk>>, <<>> }
    ELSE IF key = ingestion_batch.packet_file_path
    THEN { SignedPackets, ReplayedPackets, AltFile(SignedPackets) }
    ELSE { <<SigRec(Sign(IngestorKey, SignedHeader), Sign(IngestorKey, SignedPackets))>>,
           <<SigRec(Sign(IngestorKey, ReplayedHeader), Sign(IngestorKey, ReplayedPackets))>>,
           <<SigRec(Sign(IngestorKey, ReplayedHeader), Sign(IngestorKey, SignedPackets))>> }

Tamper ==
    /\ pc # "done"
    /\ tampered < MaxTamper
    /\ tampered' = tampered + 1
    /\ \E key \in IngestionKeys :
          \E f \in TamperFiles(key) \ {ingestionStore[key]} :
              ingestionStore' = [ingestionStore EXCEPT ![key] = f]
    /\ UNCHANGED <<is_first, batch_id, namespace_shared, other_pc,
                   validationStore, pc, result, locals, observed>>

InitTamper ==
    \E first \in BOOLEAN, id \in BatchIds :
        Constructed(first, id, FALSE,
            Store(SignedHeader, SignedPackets,
                  <<SigRec(Sign(IngestorKey, SignedHeader),
                           Sign(IngestorKey, SignedPackets))>>))

NextTamper == Next \/ Tamper

SpecTamper == InitTamper /\ [][NextTamper]_vars

----------------------------------------------------------------------------
\* Vocabulary of the properties

PcOrder ==
    <<"get_signature", "read_signature", "get_header", "read_header",
      "verify_header", "parse_header", "check_bins", "get_packet_file",
      "copy_packet_file", "verify_packet_file", "new_reader", "put_packet_file",
      "loop", "flush", "sign_packet_file", "put_header", "write_header",
      "sign_header", "put_signature", "write_signature">>

Index(label) == CHOOSE i \in 1..Len(PcOrder) : PcOrder[i] = label

\* The statement at label has been executed (whether or not it returned)
Executed(label) ==
    IF pc = "done" THEN Index(result.at) >= Index(label)
    ELSE Index(pc) > Index(label)

Done == pc = "done"

HeaderSignatureVerifies ==
    /\ signature.t = "sig"
    /\ Verify(IngestorKey, ingestion_header_buf, signature.batch_header_signature)

PacketFileSignatureVerifies ==
    /\ signature.t = "sig"
    /\ Verify(IngestorKey, entire_packet_file, signature.signature_of_packets)

\* The validation packets held by the blocks of an output packet file
RECURSIVE Objects(_)
Objects(bytes) ==
    IF bytes = <<>> THEN <<>>
    ELSE IF Head(bytes).t = "block" THEN Head(bytes).objects \o Objects(Tail(bytes))
    ELSE Objects(Tail(bytes))

\* The validation packets handed to the output packet writer so far
Emitted == Objects(packet_sidecar) \o validation_packet_writer.buffer

NoDuplicates(seq) ==
    \A i, j \in 1..Len(seq) : seq[i] = seq[j] => i = j

----------------------------------------------------------------------------
\* C1: no ingestion packet is decoded, the engine is never asked for a
\* verification message and nothing is put on the validation transport until
\* both the header signature and the packet-file signature have verified
\* against the ingestor's public key.
C1_VerifiedBeforeUse ==
    (\/ observed.decoded_from # <<>>
     \/ observed.decoded # <<>>
     \/ observed.engine_calls # <<>>
     \/ observed.puts # <<>>
     \/ DOMAIN validationStore # {})
    => (HeaderSignatureVerifies /\ PacketFileSignatureVerifies)

C1_Witness ==
    /\ observed.puts # <<>>
    /\ observed.engine_calls # <<>>
    /\ Len(observed.decoded) = 2

\* C2: with an adversary overwriting the ingestion storage at any moment, the
\* header bytes parsed are the bytes that passed header verification, every
\* decoded packet comes, in order, from the byte string that passed
\* packet-file verification, and each input key is fetched at most once.
C2_NoTimeOfCheckToTimeOfUse ==
    /\ observed.parsed_header # <<>> =>
          /\ observed.parsed_header = observed.verified_header
          /\ Verify(IngestorKey, observed.parsed_header[1],
                    signature.batch_header_signature)
    /\ observed.decoded_from # <<>> =>
          /\ observed.decoded_from = observed.verified_packets
          /\ Verify(IngestorKey, observed.decoded_from[1],
                    signature.signature_of_packets)
    /\ observed.decoded # <<>> =>
          /\ observed.verified_packets # <<>>
          /\ Len(observed.decoded) < Len(observed.verified_packets[1])
          /\ observed.decoded =
                SubSeq(Tail(observed.verified_packets[1]), 1, Len(observed.decoded))
    /\ NoDuplicates(observed.gets)
    /\ \A i \in 1..Len(observed.gets) : observed.gets[i] \in IngestionKeys

\* The adversary overwrote the header and the packet file after they were
\* read, and the call went on to decode packets
C2_Witness ==
    /\ tampered = 2
    /\ observed.decoded # <<>>
    /\ ingestionStore[ingestion_batch.header_path] # ingestion_header_buf
    /\ ingestionStore[ingestion_batch.packet_file_path] # entire_packet_file

----------------------------------------------------------------------------
\* The input batch as stored, and what the specification calls a valid batch

StoredHeader == ingestionStore[ingestion_batch.header_path]
StoredPackets == ingestionStore[ingestion_batch.packet_file_path]
StoredSignature == ingestionStore[ingestion_batch.signature_path]

\* 0 <= v <= 2^32 - 1 for a 64-bit v
InU32Range(v) == v[1] = 0 /\ v[2] = 0

EngineSucceeds(rec, bins, first) ==
    GenerateVerificationMessage(ServerNew(bins, first),
        FieldFrom(<<rec.r_pit[3], rec.r_pit[4]>>), rec.encrypted_payload).some

Processable(rec, bins, first) ==
    /\ rec.t = "pkt"
    /\ InU32Range(rec.r_pit)
    /\ EngineSucceeds(rec, bins, first)

ValidBatch ==
    /\ StoredSignature # <<>> /\ Head(StoredSignature).t = "sig"
    /\ Verify(IngestorKey, StoredHeader, Head(StoredSignature).batch_header_signature)
    /\ Verify(IngestorKey, StoredPackets, Head(StoredSignature).signature_of_packets)
    /\ StoredHeader # <<>> /\ Head(StoredHeader).t = "hdr"
    /\ Head(StoredHeader).bins > 0
    /\ StoredPackets # <<>> /\ Head(StoredPackets).t = "magic"
    /\ \A i \in 2..Len(StoredPackets) :
          Processable(StoredPackets[i], Head(StoredHeader).bins, is_first)

ValidationKeys ==
    <<validation_batch.packet_file_path, validation_batch.header_path,
      validation_batch.signature_path>>

\* C3: for a valid batch (signatures valid, bins > 0, every record a packet
\* with r_pit in the unsigned 32-bit range on which the engine succeeds) and
\* either role, a call in which no transport, stream, encoder or signer
\* operation fails returns Ok having issued exactly one put for each of the
\* three keys of its validation batch and no other put.
C3_ValidBatchSucceeds ==
    (Done /\ ValidBatch /\ ~result.injected) =>
        /\ result.kind = "Ok"
        /\ Len(observed.puts) = 3
        /\ \A i \in 1..3 : observed.puts[i] = ValidationKeys[i]
        /\ NoDuplicates(observed.puts)
        /\ DOMAIN validationStore = { ValidationKeys[i] : i \in 1..3 }

C3_Witness ==
    /\ Done /\ ValidBatch /\ result.kind = "Ok"
    /\ ~is_first
    /\ Len(StoredPackets) = 3
    /\ StoredPackets[3].r_pit = I64(0, 0, 65535, 65535)

\* C4: when the header signature of the signature record does not verify
\* over the fetched header bytes, the call returns CryptographyError from
\* the header verification, the header is not parsed, the packet file is
\* never fetched and nothing is put to the validation transport.
C4_HeaderTamperingRejected ==
    (Executed("verify_header") /\ ~HeaderSignatureVerifies) =>
        /\ Done
        /\ result.kind = "CryptographyError"
        /\ result.at = "verify_header"
        /\ observed.parsed_header = <<>>
        /\ ingestion_header = NoHeader
        /\ server = NoServer
        /\ \A i \in 1..Len(observed.gets) :
              observed.gets[i] # ingestion_batch.packet_file_path
        /\ entire_packet_file = <<>>
        /\ observed.puts = <<>>
        /\ DOMAIN validationStore = {}

\* The signature is the ingestor's, over a header that differs from the
\* stored one, which by itself would parse to a header with bins > 0
C4_Witness ==
    /\ Done
    /\ result.kind = "CryptographyError" /\ result.at = "verify_header"
    /\ ingestion_header_buf = <<HeaderRec(2, 1)>>
    /\ signature.batch_header_signature.signer = IngestorKey
    /\ signature.batch_header_signature.msg # ingestion_header_buf

\* C5: when the packet-file signature does not verify over the fetched
\* packet file, whatever the records in it say, the call returns
\* CryptographyError from the packet-file verification, no packet is decoded
\* and no output stream is opened on the validation transport.
C5_PacketFileTamperingRejected ==
    (Executed("verify_packet_file") /\ ~PacketFileSignatureVerifies) =>
        /\ Done
        /\ result.kind = "CryptographyError"
        /\ result.at = "verify_packet_file"
        /\ observed.decoded_from = <<>>
        /\ observed.decoded = <<>>
        /\ observed.engine_calls = <<>>
        /\ ingestion_packet_reader = NoReader
        /\ observed.puts = <<>>
        /\ DOMAIN validationStore = {}

\* The stored file and the signed file hold the same, processable, records
\* and differ only in the container metadata
C5_Witness ==
    /\ Done
    /\ result.kind = "CryptographyError" /\ result.at = "verify_packet_file"
    /\ signature.signature_of_packets.signer = IngestorKey
    /\ Len(entire_packet_file) = 3
    /\ Tail(signature.signature_of_packets.msg) = Tail(entire_packet_file)
    /\ \A i \in 2..3 :
          Processable(entire_packet_file[i], ingestion_header.bins, is_first)

\* C6: a header whose signature verifies and whose bins is 0 or negative
\* makes the call return MalformedHeaderError before the engine is
\* constructed, before the packet file is fetched and before any output.
C6_NonPositiveBinsRejected ==
    (Executed("check_bins") /\ ingestion_header.bins <= 0) =>
        /\ Done
        /\ HeaderSignatureVerifies
        /\ result.kind = "MalformedHeaderError"
        /\ result.at = "check_bins"
        /\ server = NoServer
        /\ \A i \in 1..Len(observed.gets) :
              observed.gets[i] # ingestion_batch.packet_file_path
        /\ observed.puts = <<>>
        /\ DOMAIN validationStore = {}

C6_Witness ==
    /\ Done
    /\ result.kind = "MalformedHeaderError"
    /\ HeaderSignatureVerifies
    /\ ingestion_header.bins = 0

----------------------------------------------------------------------------
\* The records of the authenticated packet file, once the reader exists
ReaderCreated == ingestion_packet_reader.t = "reader"
Records == Tail(entire_packet_file)
Consumed == Len(Records) - Len(ingestion_packet_reader.rest)

\* Record k is a packet whose r_pit is outside the unsigned 32-bit range and
\* every earlier record is a packet the engine accepts
FirstIllegalRPitAt(k) ==
    /\ Records[k].t = "pkt"
    /\ ~InU32Range(Records[k].r_pit)
    /\ \A j \in 1..(k - 1) : Processable(Records[j], ingestion_header.bins, is_first)

OutputPacketFile ==
    IF validation_batch.packet_file_path \in DOMAIN validationStore
    THEN validationStore[validation_batch.packet_file_path]
    ELSE <<>>

\* C7: if the k-th packet of an authenticated packet file has an r_pit
\* outside the unsigned 32-bit range and the earlier packets are processed
\* successfully, the call returns MalformedDataPacketError at that packet:
\* the engine is invoked for no packet from k on, no validation packet from k
\* on reaches the output writer, and the call never goes on to flush.
C7_IllegalRPitStopsProcessing ==
    ReaderCreated =>
        \A k \in 1..Len(Records) :
            FirstIllegalRPitAt(k) =>
                /\ Len(observed.engine_calls) < k
                /\ Len(Emitted) < k
                /\ Len(Objects(OutputPacketFile)) < k
                /\ pc \in {"put_packet_file", "loop", "done"}
                /\ (Done /\ ~result.injected) =>
                      /\ result.kind = "MalformedDataPacketError"
                      /\ result.at = "loop"
                      /\ Consumed = k
                      /\ observed.decoded = SubSeq(Records, 1, k)
                      /\ observed.engine_calls = SubSeq(Records, 1, k - 1)
                      /\ Len(Emitted) = k - 1

\* The second packet is the illegal one, after a first that was emitted,
\* and, with longer files, packets follow it
C7_Witness ==
    /\ Done
    /\ result.kind = "MalformedDataPacketError"
    /\ Len(observed.decoded) = 2
    /\ Len(Emitted) = 1
    /\ observed.decoded[2].r_pit = I64(0, 1, 0, 0)

\* C8: on success the validation packets in the output packet stream are as
\* many as the input packets, and the i-th carries the UUID of the i-th
\* input packet.
C8_OneToOneInOrder ==
    result.kind = "Ok" =>
        LET out == Objects(OutputPacketFile)
        IN  /\ Len(out) = Len(Records)
            /\ \A i \in 1..Len(out) :
                  /\ out[i].t = "vpkt"
                  /\ out[i].uuid = Records[i].uuid
            /\ Objects(packet_sidecar) = out

C8_Witness ==
    /\ result.kind = "Ok"
    /\ Len(Objects(OutputPacketFile)) = 2
    /\ Objects(OutputPacketFile)[1].uuid = "p2"
    /\ Objects(OutputPacketFile)[2].uuid = "p1"

----------------------------------------------------------------------------
\* The outcome the thirteen steps give for the stored batch when no
\* collaborator operation fails, read off the specification's step order

Min(S) == CHOOSE x \in S : \A y \in S : x <= y

PacketErrorKind(rec) ==
    IF rec.t # "pkt" THEN "AvroError"
    ELSE IF ~InU32Range(rec.r_pit) THEN "MalformedDataPacketError"
    ELSE "LibPrioError"

Outcome(kind, at, consumed) == [kind |-> kind, at |-> at, consumed |-> consumed]

ExpectedOutcomeFor(first) ==
    LET s == ReadSignature(StoredSignature)
        h == ReadHeader(StoredHeader)
        recs == Tail(StoredPackets)
        bad == { k \in 1..Len(recs) : ~Processable(recs[k], h.val.bins, first) }
    IN  IF ~s.ok THEN Outcome(s.err, "read_signature", 0)
        ELSE IF ~Verify(IngestorKey, StoredHeader, s.val.batch_header_signature)
        THEN Outcome("CryptographyError", "verify_header", 0)
        ELSE IF ~h.ok THEN Outcome(h.err, "parse_header", 0)
        ELSE IF h.val.bins <= 0 THEN Outcome("MalformedHeaderError", "check_bins", 0)
        ELSE IF ~Verify(IngestorKey, StoredPackets, s.val.signature_of_packets)
        THEN Outcome("CryptographyError", "verify_packet_file", 0)
        ELSE IF StoredPackets = <<>> \/ Head(StoredPackets).t # "magic"
        THEN Outcome("AvroError", "new_reader", 0)
        ELSE IF bad # {}
        THEN Outcome(PacketErrorKind(recs[Min(bad)]), "loop", Min(bad))
        ELSE Outcome("Ok", "write_signature", Len(recs))

ExpectedOutcome == ExpectedOutcomeFor(is_first)

\* The keys a call that returned from the statement at label has fetched / put
KeysUpTo(labels, keys, at) ==
    LET n == Cardinality({ i \in 1..Len(labels) : Index(labels[i]) <= Index(at) })
    IN  SubSeq(keys, 1, n)

ExpectedGets(at) ==
    KeysUpTo(<<"get_signature", "get_header", "get_packet_file">>,
             <<ingestion_batch.signature_path, ingestion_batch.header_path,
               ingestion_batch.packet_file_path>>, at)

ExpectedPuts(at) ==
    KeysUpTo(<<"put_packet_file", "put_header", "put_signature">>,
             ValidationKeys, at)

Before(at, label) == Index(at) < Index(label)

\* C9: the call either completes every step and returns Ok, or returns the
\* error of the first step, in the specification's order and within step 8
\* the first packet in file order, that fails, and has executed no later
\* step; with several faults present the earliest decides the error kind.
C9_FirstFailureWins ==
    Done =>
        LET e == ExpectedOutcome
        IN  /\ ~result.injected =>
                  /\ result.kind = e.kind
                  /\ result.at = e.at
                  /\ result.at = "loop" => Consumed = e.consumed
            /\ result.injected =>
                  /\ result.kind # "Ok"
                  /\ Index(result.at) <= Index(e.at)
                  /\ (result.at = "loop" /\ e.at = "loop") => Consumed < e.consumed
            /\ result.kind = "Ok" <=> (result.at = "write_signature" /\ ~result.injected)
            /\ observed.gets = ExpectedGets(result.at)
            /\ observed.puts = ExpectedPuts(result.at)
            /\ Before(result.at, "parse_header") => ingestion_header = NoHeader
            /\ Before(result.at, "check_bins") => server = NoServer
            /\ Before(result.at, "new_reader") => ~ReaderCreated
            /\ Before(result.at, "loop") => observed.engine_calls = <<>>
            /\ Before(result.at, "sign_packet_file") => packet_file_signature = NoSig
            /\ Before(result.at, "write_header") => header_sidecar = <<>>
            /\ Before(result.at, "sign_header") => header_signature = NoSig
            /\ result.kind # "Ok" =>
                  \/ validation_batch.signature_path \notin DOMAIN validationStore
                  \/ validationStore[validation_batch.signature_path] = <<>>

\* The engine fails on packet 1 and packet 2 has an r_pit out of range
C9_Witness ==
    /\ Done
    /\ result.kind = "LibPrioError"
    /\ ingestion_packet_reader.rest # <<>>
    /\ Head(ingestion_packet_reader.rest).t = "pkt"
    /\ ~InU32Range(Head(ingestion_packet_reader.rest).r_pit)

\* C10: EofError is never returned to the caller, whatever the input batch,
\* an empty signature file or header file included.
C10_EofNeverReturned == result.kind # "EofError"

\* Record k is a packet with an r_pit in range whose payload the engine
\* cannot use, and every earlier record is a packet the engine accepts
FirstEngineFailureAt(k) ==
    /\ Records[k].t = "pkt"
    /\ InU32Range(Records[k].r_pit)
    /\ ~Records[k].encrypted_payload.intact
    /\ \A j \in 1..(k - 1) : Processable(Records[j], ingestion_header.bins, is_first)

\* C11: if the engine returns None for the k-th packet of an authenticated
\* packet file (the earlier packets having been processed), the call returns
\* LibPrioError at that packet: no record after the k-th is decoded or handed
\* to the engine, no validation packet from k on is emitted, the call never
\* goes on to flush, and the output header key and the output signature key
\* are never put.
C11_EngineFailureIsFatal ==
    ReaderCreated =>
        \A k \in 1..Len(Records) :
            FirstEngineFailureAt(k) =>
                /\ Len(observed.decoded) <= k
                /\ Len(observed.engine_calls) <= k
                /\ Len(Emitted) < k
                /\ Len(Objects(OutputPacketFile)) < k
                /\ pc \in {"put_packet_file", "loop", "done"}
                /\ \A i \in 1..Len(observed.puts) :
                      observed.puts[i] = validation_batch.packet_file_path
                /\ validation_batch.header_path \notin DOMAIN validationStore
                /\ validation_batch.signature_path \notin DOMAIN validationStore
                /\ packet_file_signature = NoSig
                /\ header_signature = NoSig
                /\ (Done /\ ~result.injected) =>
                      /\ result.kind = "LibPrioError"
                      /\ result.at = "loop"
                      /\ Consumed = k
                      /\ observed.decoded = SubSeq(Records, 1, k)
                      /\ observed.engine_calls = SubSeq(Records, 1, k)
                      /\ Len(Emitted) = k - 1

\* The engine rejects the second packet after the first was emitted
C11_Witness ==
    /\ Done
    /\ result.kind = "LibPrioError"
    /\ Len(observed.engine_calls) = 2
    /\ Len(Emitted) = 1
    /\ ~observed.decoded[2].encrypted_payload.intact

OutputHeaderFile ==
    IF validation_batch.header_path \in DOMAIN validationStore
    THEN validationStore[validation_batch.header_path]
    ELSE <<>>

\* C12: on success the output header stream holds one validation header, and
\* each of its fields (batch UUID, name, bins, epsilon, prime, number of
\* servers, hamming weight) equals the same field of the stored ingestion
\* header, which is the header whose signature was verified.
C12_HeaderCopiedVerbatim ==
    result.kind = "Ok" =>
        /\ StoredHeader = ingestion_header_buf
        /\ HeaderSignatureVerifies
        /\ Len(StoredHeader) = 1
        /\ Len(OutputHeaderFile) = 1
        /\ LET in == StoredHeader[1]
               out == OutputHeaderFile[1]
           IN  /\ in.t = "hdr"
               /\ out.t = "vhdr"
               /\ out.batch_uuid = in.batch_uuid
               /\ out.name = in.name
               /\ out.bins = in.bins
               /\ out.epsilon = in.epsilon
               /\ out.prime = in.prime
               /\ out.number_of_servers = in.number_of_servers
               /\ out.hamming_weight = in.hamming_weight

\* A header whose seven fields are pairwise different was copied
C12_Witness ==
    /\ result.kind = "Ok"
    /\ OutputHeaderFile # <<>>
    /\ OutputHeaderFile[1].bins = 3
    /\ OutputHeaderFile[1].hamming_weight = 4
    /\ OutputHeaderFile[1].number_of_servers = 2
    /\ OutputHeaderFile[1].epsilon = 11

\* The keys of a batch, as a set
KeySet(batch) ==
    { batch.header_path, batch.packet_file_path, batch.signature_path }

ValidationBatchOf(first) ==
    NewValidation(batch_id.aggregation_name, batch_id.uuid, batch_id.date, first)

\* C13, as the claim states it: for every collection name, UUID, date and
\* role an ingestor is built with, the
\* ingestion keys are stem.batch, stem.batch.avro and stem.batch.sig, the
\* validation keys are stem.validity_N, stem.validity_N.avro and
\* stem.validity_N.sig with N = 0 for the first role and N = 1 for the
\* second; the three keys of a batch are pairwise distinct; the ingestion,
\* validity_0 and validity_1 triples are pairwise disjoint; and these are the
\* keys every get and put of the call names.
C13_BatchLocator ==
    LET n == IF is_first THEN "0" ELSE "1"
        Stem == batch_id.aggregation_name \o <<"/">> \o batch_id.date
                    \o <<"/", batch_id.uuid>>
    IN  /\ ingestion_batch.header_path = Stem \o <<".", "batch">>
        /\ ingestion_batch.packet_file_path = Stem \o <<".", "batch", ".avro">>
        /\ ingestion_batch.signature_path = Stem \o <<".", "batch", ".sig">>
        /\ validation_batch.header_path = Stem \o <<".", "validity_", n>>
        /\ validation_batch.packet_file_path = Stem \o <<".", "validity_", n, ".avro">>
        /\ validation_batch.signature_path = Stem \o <<".", "validity_", n, ".sig">>
        /\ validation_batch = ValidationBatchOf(is_first)
        /\ Cardinality(KeySet(ingestion_batch)) = 3
        /\ Cardinality(KeySet(ValidationBatchOf(TRUE))) = 3
        /\ Cardinality(KeySet(ValidationBatchOf(FALSE))) = 3
        /\ KeySet(ingestion_batch) \cap KeySet(ValidationBatchOf(TRUE)) = {}
        /\ KeySet(ingestion_batch) \cap KeySet(ValidationBatchOf(FALSE)) = {}
        /\ KeySet(ValidationBatchOf(TRUE)) \cap KeySet(ValidationBatchOf(FALSE)) = {}
        /\ \A i \in 1..Len(observed.gets) :
              observed.gets[i] \in KeySet(ingestion_batch)
        /\ \A i \in 1..Len(observed.puts) :
              observed.puts[i] \in KeySet(ValidationBatchOf(is_first))

\* The low 32 bits of a 64-bit integer
Low32(v) == <<v[3], v[4]>>

\* C14: a decoded packet whose r_pit is in 0..2^32-1 reaches the engine, and
\* the engine is given the field embedding of that very value, neither
\* truncated nor wrapped.  A decoded packet with any other r_pit (negative, or
\* 2^32 and more) ends the call with MalformedDataPacketError and no engine
\* call is made for it; MalformedDataPacketError is returned for no other
\* packet.
C14_RPitRangeCheck ==
    /\ Len(observed.engine_args) = Len(observed.engine_calls)
    /\ \A i \in 1..Len(observed.decoded) :
          LET r_pit == observed.decoded[i].r_pit
          IN  IF InU32Range(r_pit)
              THEN /\ i <= Len(observed.engine_calls)
                   /\ observed.engine_calls[i] = observed.decoded[i]
                   /\ observed.engine_args[i] = FieldFrom(Low32(r_pit))
              ELSE /\ i = Len(observed.decoded)
                   /\ Len(observed.engine_calls) = i - 1
                   /\ Done
                   /\ result.kind = "MalformedDataPacketError"
                   /\ result.at = "loop"
    /\ result.kind = "MalformedDataPacketError" =>
          /\ observed.decoded # <<>>
          /\ ~InU32Range(observed.decoded[Len(observed.decoded)].r_pit)

\* r_pit = 2^32 - 1 was accepted and reached the engine as the embedding of
\* 2^32 - 1, then r_pit = -1 was rejected
C14_Witness ==
    /\ Done
    /\ result.kind = "MalformedDataPacketError"
    /\ Len(observed.decoded) = 2
    /\ observed.decoded[1].r_pit = I64(0, 0, 65535, 65535)
    /\ observed.engine_args = <<FieldFrom(<<65535, 65535>>)>>
    /\ observed.decoded[2].r_pit = I64(65535, 65535, 65535, 65535)

OutputSignatureFile ==
    IF validation_batch.signature_path \in DOMAIN validationStore
    THEN validationStore[validation_batch.signature_path]
    ELSE <<>>

\* The keys named by the puts made so far
PutKeys == { observed.puts[i] : i \in 1..Len(observed.puts) }

\* The keys whose put went through: all but the one whose put failed
OpenedKeys ==
    IF Done /\ result.at \in {"put_packet_file", "put_header", "put_signature"}
    THEN PutKeys \ { observed.puts[Len(observed.puts)] }
    ELSE PutKeys

\* C15, as the claim states it: in an execution that returns an error no put
\* of the output signature key was made, so that no stream exists under that
\* key.
C15_NoSignaturePutOnError ==
    (Done /\ result.kind # "Ok") =>
        validation_batch.signature_path \notin DOMAIN validationStore

\* C15, amended: the puts are made in the order packet file, header,
\* signature, each key once; when the signature key is put the packet writer
\* has been flushed and both signatures have been produced over the complete
\* output streams; a call that returns an error leaves no signature record
\* under the signature key, and that key has been put only if the error is
\* the failure of that put or of the write of the signature record; and
\* whatever was written before the error is still stored, under every key
\* whose put went through.
C15_OutputOrder ==
    /\ Len(observed.puts) <= 3
    /\ observed.puts = SubSeq(ValidationKeys, 1, Len(observed.puts))
    /\ validation_batch.signature_path \in PutKeys =>
          /\ validation_packet_writer.buffer = <<>>
          /\ Objects(packet_sidecar) = Emitted
          /\ packet_file_signature = Sign(SigningKey(is_first), packet_sidecar)
          /\ header_signature = Sign(SigningKey(is_first), header_sidecar)
          /\ header_sidecar # <<>>
          /\ OutputPacketFile = packet_sidecar
          /\ OutputHeaderFile = header_sidecar
    /\ (Done /\ result.kind # "Ok") =>
          /\ OutputSignatureFile = <<>>
          /\ validation_batch.signature_path \in PutKeys =>
                result.at \in {"put_signature", "write_signature"}
          /\ DOMAIN validationStore = OpenedKeys
          /\ OutputPacketFile = packet_sidecar
          /\ OutputHeaderFile = header_sidecar
    /\ result.kind = "Ok" =>
          /\ observed.puts = ValidationKeys
          /\ Len(OutputSignatureFile) = 1

\* The write of the signature record failed after its put went through: the
\* call returns an error and leaves a packet file with a validation packet, a
\* header and an empty stream under the signature key
C15_Witness ==
    /\ Done
    /\ result.kind = "AvroError"
    /\ result.at = "write_signature"
    /\ validation_batch.signature_path \in DOMAIN validationStore
    /\ OutputSignatureFile = <<>>
    /\ Len(Objects(OutputPacketFile)) = 1
    /\ Len(OutputHeaderFile) = 1

\* C16: in every state each sidecar buffer holds exactly the bytes delivered
\* to its output stream; once the packet-file signature exists the writer has
\* been flushed and the signature is the processor's over the complete output
\* packet stream, and once the header signature exists it is the processor's
\* over the output header stream; a stored signature record carries the
\* header signature in batch_header_signature and the packet-file signature
\* in signature_of_packets.
C16_SignedBytesAreWrittenBytes ==
    /\ packet_sidecar = OutputPacketFile
    /\ header_sidecar = OutputHeaderFile
    /\ packet_file_signature # NoSig =>
          /\ Executed("flush")
          /\ validation_packet_writer.buffer = <<>>
          /\ Objects(OutputPacketFile) = Emitted
          /\ packet_file_signature = Sign(SigningKey(is_first), OutputPacketFile)
    /\ header_signature # NoSig =>
          /\ OutputHeaderFile = <<ValidationHeader(ingestion_header)>>
          /\ header_signature = Sign(SigningKey(is_first), OutputHeaderFile)
    /\ OutputSignatureFile # <<>> =>
          /\ Len(OutputSignatureFile) = 1
          /\ OutputSignatureFile[1].t = "sig"
          /\ OutputSignatureFile[1].batch_header_signature = header_signature
          /\ OutputSignatureFile[1].signature_of_packets = packet_file_signature
          /\ Verify(SigningKey(is_first), OutputHeaderFile,
                    OutputSignatureFile[1].batch_header_signature)
          /\ Verify(SigningKey(is_first), OutputPacketFile,
                    OutputSignatureFile[1].signature_of_packets)

\* A signature record was stored for a packet stream whose only block was
\* delivered by the flush
C16_Witness ==
    /\ result.kind = "Ok"
    /\ Len(OutputPacketFile) = 2
    /\ Len(Objects(OutputPacketFile)) = 1
    /\ OutputSignatureFile # <<>>
    /\ OutputSignatureFile[1].signature_of_packets.msg = OutputPacketFile
    /\ OutputSignatureFile[1].batch_header_signature.msg = OutputHeaderFile

----------------------------------------------------------------------------
\* A second BatchIngestor: the one of the other role, built for the same
\* aggregation_name, uuid and date and run at the same time on the same
\* stored batch, with every transport of both instances rooted at one
\* directory.  Of its call the model keeps what reaches the storage: its puts
\* and its stream writes, in the order and with the bytes
\* generate_validation_share gives them; it may stop after any of them, as it
\* does when a collaborator fails.

other_batch == ValidationBatchOf(~is_first)

OtherValidationKeys ==
    <<other_batch.packet_file_path, other_batch.header_path,
      other_batch.signature_path>>

Call(op, key, bytes) == [op |-> op, key |-> key, bytes |-> bytes]

\* The validation packet the loop body builds for a packet
PacketOut(packet, srv) ==
    ValidationPacket(packet.uuid,
        GenerateVerificationMessage(srv, FieldFrom(TryFromU32(packet.r_pit).val),
                                    packet.encrypted_payload))

\* The writer after the objects outs were appended to it
RECURSIVE WriterAfter(_, _)
WriterAfter(w, outs) ==
    IF outs = <<>> THEN w
    ELSE WriterAfter(AppendState(w, Head(outs)), Tail(outs))

\* The stream writes the appends of outs make under key
RECURSIVE AppendCalls(_, _, _)
AppendCalls(w, outs, key) ==
    IF outs = <<>> THEN <<>>
    ELSE (IF AppendOutput(w, Head(outs)) = <<>> THEN <<>>
          ELSE <<Call("write", key, AppendOutput(w, Head(outs)))>>)
         \o AppendCalls(AppendState(w, Head(outs)), Tail(outs), key)

\* The bytes of the write calls among calls that go to key
RECURSIVE Written(_, _)
Written(calls, key) ==
    IF calls = <<>> THEN <<>>
    ELSE (IF Head(calls).op = "write" /\ Head(calls).key = key
          THEN Head(calls).bytes ELSE <<>>)
         \o Written(Tail(calls), key)

\* The calls the other instance makes on the validation transport and its
\* streams when no collaborator fails
OtherCalls ==
    LET first == ~is_first
        e == ExpectedOutcomeFor(first)
        h == ReadHeader(StoredHeader).val
        srv == ServerNew(h.bins, first)
        recs == Tail(StoredPackets)
        n == IF e.at = "loop" THEN e.consumed - 1 ELSE Len(recs)
        outs == [i \in 1..n |-> PacketOut(recs[i], srv)]
        appends == AppendCalls(NewWriter, outs, OtherValidationKeys[1])
        flush == FlushOutput(WriterAfter(NewWriter, outs))
        packets == Written(appends, OtherValidationKeys[1]) \o flush
        header == <<ValidationHeader(h)>>
    IN  IF e.kind # "Ok" /\ e.at # "loop" THEN <<>>
        ELSE <<Call("put", OtherValidationKeys[1], <<>>)>> \o appends
             \o (IF e.kind # "Ok" THEN <<>>
                 ELSE (IF flush = <<>> THEN <<>>
                       ELSE <<Call("write", OtherValidationKeys[1], flush)>>)
                      \o <<Call("put", OtherValidationKeys[2], <<>>),
                            Call("write", OtherValidationKeys[2], header),
                            Call("put", OtherValidationKeys[3], <<>>),
                            Call("write", OtherValidationKeys[3],
                                 <<SigRec(Sign(SigningKey(first), header),
                                          Sign(SigningKey(first), packets))>>)>>)

\* The keys the other instance has put so far
OtherPutKeys ==
    { OtherCalls[i].key : i \in { j \in 1..other_pc : OtherCalls[j].op = "put" } }

OtherInstancePut ==
    /\ other_pc < Len(OtherCalls)
    /\ OtherCalls[other_pc + 1].op = "put"
    /\ other_pc' = other_pc + 1
    /\ validationStore' = Put(validationStore, OtherCalls[other_pc + 1].key)
    /\ ingestionStore' = SharedView(ingestionStore, validationStore')
    /\ UNCHANGED <<is_first, batch_id, namespace_shared, pc, result, locals,
                   observed, tampered>>

OtherInstanceWrite ==
    /\ other_pc < Len(OtherCalls)
    /\ OtherCalls[other_pc + 1].op = "write"
    /\ other_pc' = other_pc + 1
    /\ validationStore' =
          StreamWrite(validationStore, OtherCalls[other_pc + 1].key,
                      OtherCalls[other_pc + 1].bytes)
    /\ ingestionStore' = SharedView(ingestionStore, validationStore')
    /\ UNCHANGED <<is_first, batch_id, namespace_shared, pc, result, locals,
                   observed, tampered>>

\* Packet files of each kind: none, a container without packets, valid ones
\* with one packet and with MaxPackets packets, one with an r_pit out of
\* range, one the engine rejects
SharedPacketFiles ==
    { <<>>, <<Magic(0)>>, SubSeq(SignedPackets, 1, 2), SignedPackets,
      ReplayedPackets,
      <<Magic(0), Packet("p5", I64(0, 0, 0, 5), Payload(FALSE, <<0, 0>>))>> }

InitShared ==
    \E first \in BOOLEAN, id \in BatchIds, h \in HeaderFiles,
       p \in SharedPacketFiles :
        \E s \in SignatureFiles(h, p) :
            Constructed(first, id, TRUE, Store(h, p, s))

NextShared == Next \/ OtherInstancePut \/ OtherInstanceWrite

SpecShared == InitShared /\ [][NextShared]_vars

\* What an output stream of the other instance holds if nothing else writes
\* it
OtherExpectedFile(key) == Written(SubSeq(OtherCalls, 1, other_pc), key)

\* C17: with both roles' instances running for the same batch on one shared
\* directory, the validation keys of the two roles are disjoint from each
\* other and from the ingestion keys; no key is put by both instances and no
\* key an instance puts is an ingestion key; the stored ingestion files are
\* the bytes this call fetched; each output stream of either instance holds
\* exactly what that instance wrote to it; and the result of the call is the
\* one the stored batch determines for a call running alone.
C17_RolesDoNotInterfere ==
    /\ KeySet(validation_batch) \cap KeySet(other_batch) = {}
    /\ KeySet(validation_batch) \cap KeySet(ingestion_batch) = {}
    /\ KeySet(other_batch) \cap KeySet(ingestion_batch) = {}
    /\ PutKeys \subseteq KeySet(validation_batch)
    /\ PutKeys \cap OtherPutKeys = {}
    /\ DOMAIN validationStore = OpenedKeys \cup OtherPutKeys
    /\ OutputPacketFile = packet_sidecar
    /\ OutputHeaderFile = header_sidecar
    /\ OutputSignatureFile =
          IF result.kind = "Ok"
          THEN <<SigRec(header_signature, packet_file_signature)>> ELSE <<>>
    /\ \A key \in OtherPutKeys :
          validationStore[key] = OtherExpectedFile(key)
    /\ Executed("read_header") /\ (Done => result.at # "read_header") =>
          ingestion_header_buf = StoredHeader
    /\ Executed("copy_packet_file") /\ (Done => result.at # "copy_packet_file") =>
          entire_packet_file = StoredPackets
    /\ (Done /\ ~result.injected) =>
          /\ result.kind = ExpectedOutcome.kind
          /\ result.at = ExpectedOutcome.at
    /\ result.kind = "Ok" =>
          /\ OutputHeaderFile = <<ValidationHeader(Head(StoredHeader))>>
          /\ Len(Objects(OutputPacketFile)) = Len(Tail(StoredPackets))
          /\ \A i \in 1..Len(Objects(OutputPacketFile)) :
                Objects(OutputPacketFile)[i].uuid = StoredPackets[i + 1].uuid

\* Both instances have written all their output next to the ingestion files
C17_Witness ==
    /\ namespace_shared
    /\ result.kind = "Ok"
    /\ other_pc = Len(OtherCalls)
    /\ Cardinality(DOMAIN validationStore) = 6
    /\ Len(Objects(OutputPacketFile)) = MaxPackets
    /\ Len(Objects(validationStore[OtherValidationKeys[1]])) = MaxPackets
    /\ Len(validationStore[OtherValidationKeys[3]]) = 1

\* v is a 64-bit integer in 0..2^32-1 whose value is the unsigned 32-bit u
IsUnsignedValueOf(v, u) ==
    /\ v[1] = 0 /\ v[2] = 0
    /\ v[3] = u[1] /\ v[4] = u[2]
    /\ \A i \in 1..4 : v[i] \in 0..(Limb - 1)

\* C18: the i-th validation packet emitted carries, in f_r, g_r and h_r, the
\* three unsigned 32-bit values the engine returned for the i-th packet, each
\* as a 64-bit integer whose upper 32 bits are zero (so non-negative and at
\* most 2^32 - 1) and whose lower 32 bits are the engine's value, also for
\* values of 2^31 and more.
C18_WidenedWithoutSignExtension ==
    /\ Len(Emitted) <= Len(observed.engine_calls)
    /\ \A i \in 1..Len(Emitted) :
          LET packet == observed.engine_calls[i]
              m == GenerateVerificationMessage(server, observed.engine_args[i],
                                               packet.encrypted_payload)
          IN  /\ m.some
              /\ Emitted[i].uuid = packet.uuid
              /\ IsUnsignedValueOf(Emitted[i].f_r, U32From(m.f_r))
              /\ IsUnsignedValueOf(Emitted[i].g_r, U32From(m.g_r))
              /\ IsUnsignedValueOf(Emitted[i].h_r, U32From(m.h_r))
    /\ \A i \in 1..Len(Objects(OutputPacketFile)) :
          Objects(OutputPacketFile)[i] = Emitted[i]

\* A validation packet with h_r = 0xFFF00000, above 2^31, is in the output
C18_Witness ==
    /\ result.kind = "Ok"
    /\ Len(Objects(OutputPacketFile)) = MaxPackets
    /\ Objects(OutputPacketFile)[1].h_r = I64(0, 0, 65520, 0)
    /\ Objects(OutputPacketFile)[1].g_r = I64(0, 0, 65535, 65535)

----------------------------------------------------------------------------
\* The call as a running program: generate_validation_share is sequential
\* code that blocks on nothing but its collaborators, so while a statement
\* remains to be executed one is executed, once the collaborator it calls has
\* answered (with success or with failure).

SpecLive == Init /\ [][Next]_vars /\ WF_vars(Next)

\* What a step taken from the head of the loop does
LoopStep ==
    pc = "loop" =>
        LET rest == ingestion_packet_reader.rest
        IN  /\ rest = <<>> =>
                  /\ pc' = "flush"
                  /\ ingestion_packet_reader' = ingestion_packet_reader
            /\ rest # <<>> =>
                  /\ pc' \in {"loop", "done"}
                  /\ ingestion_packet_reader'.rest = Tail(rest)
                  /\ Len(observed'.decoded) <= Len(observed.decoded) + 1
                  /\ Len(Emitted') <= Len(Emitted) + 1
                  /\ pc' = "loop" =>
                        /\ Len(observed'.decoded) = Len(observed.decoded) + 1
                        /\ Len(Emitted') = Len(Emitted) + 1
                  /\ Head(rest).t # "pkt" =>
                        /\ pc' = "done"
                        /\ result' = [kind |-> "AvroError", at |-> "loop",
                                      injected |-> FALSE]

\* C19: every call returns; a step from the head of the loop consumes
\* exactly one record of the input, except at the end of the input, where it
\* leaves the loop for the flush; the loop is left for the flush in no other
\* case; and a record that does not decode ends the call with the decoder's
\* error.
C19_CallReturns == <>Done /\ [][LoopStep]_vars

\* A call returned Ok after the loop consumed every packet and ended at the
\* end of the input
C19_Witness ==
    /\ Done
    /\ result.kind = "Ok"
    /\ Consumed = MaxPackets
    /\ ingestion_packet_reader.rest = <<>>
    /\ Len(Emitted) = MaxPackets

\* The keys under which a step creates, truncates or extends a stream
WrittenKeys ==
    { k \in DOMAIN validationStore' :
        k \notin DOMAIN validationStore \/ validationStore'[k] # validationStore[k] }

\* A step of this instance's call, as opposed to one of the other instance
CallStep == other_pc' = other_pc

FrameStep ==
    /\ ingestionStore' = ingestionStore
    /\ DOMAIN validationStore \subseteq DOMAIN validationStore'
    /\ CallStep => WrittenKeys \subseteq KeySet(validation_batch)

FrameState ==
    /\ \A i \in 1..Len(observed.gets) :
          observed.gets[i] \in KeySet(ingestion_batch)
    /\ PutKeys \subseteq KeySet(validation_batch)
    /\ DOMAIN validationStore \ OtherPutKeys \subseteq KeySet(validation_batch)
    /\ DOMAIN ingestionStore = KeySet(ingestion_batch)

\* C20: with the ingestion and the validation transport rooted at one
\* directory, every get of the call names an ingestion key and every put a
\* key of this instance's validation batch; no step, of a call that succeeds
\* or of one that fails, changes a stored ingestion file; and every stream a
\* step of the call creates or writes to is under one of the three keys of
\* this instance's validation batch.
C20_FrameEffect == []FrameState /\ [][FrameStep]_vars

\* A successful call fetched the three ingestion files and put its three
\* validation keys in the directory that holds the ingestion files
C20_Witness ==
    /\ namespace_shared
    /\ result.kind = "Ok"
    /\ Len(observed.gets) = 3
    /\ observed.puts = ValidationKeys
    /\ KeySet(validation_batch) \subseteq DOMAIN validationStore
    /\ StoredPackets = SignedPackets

====
